---- MODULE Spec2Model ----
(***************************************************************************)
(* ClawForge dashboard: the event/state reconciliation layer of the React  *)
(* frontend.                                                               *)
(*                                                                         *)
(*   App            frontend/src/App.tsx         view mode + run selection *)
(*   RunDetail      components/RunDetail.tsx     history poller + controls *)
(*   useEventStream useEventStream (part_005)    live push buffer          *)
(*                                                                         *)
(* The backend is the environment: per run an append-only event log; the   *)
(* snapshot endpoint returns the log and, as status, the kind of the last  *)
(* event (RunDetail.tsx:27).                                               *)
(*                                                                         *)
(*   Spec         the assembled dashboard: App with RunDetail              *)
(*   SpecPrompt   RunDetail started with its input prompt rendered         *)
(*   SpecStream   the stream client                                        *)
(*   SpecResolve  the run state derived from a growing event log           *)
(***************************************************************************)
EXTENDS Integers, Sequences, FiniteSets, TLC

VARIABLES
    viewMode,      \* App: 'live' | 'history'
    activeRunId,   \* App: string | null
    events,        \* RunDetail: Event[]
    status,        \* RunDetail: string
    inputPrompt,   \* RunDetail: string | null
    inputValue,    \* RunDetail: string
    loading,       \* RunDetail: boolean
    timers,        \* setInterval handles of RunDetail's effect, by closure runId
    inflight,      \* requests awaiting their response
    backend,       \* environment: event log (sequence of kinds) of every run
    inputSent,     \* history: displayed status at each POST .../input
    lastSubmit,    \* history: how the last input submission ended
    liveEvents,    \* useEventStream: Event[]
    isConnected,   \* useEventStream: boolean
    socket,        \* WebSocket readyState
    parsedLog,     \* history: the values JSON.parse returned, arrival order
    msgCount,      \* number of stream messages delivered so far
    badCount,      \* number of stream messages so far that were not Events
    rlog,          \* resolver input: ordered event sequence
    rstatus,       \* resolver output for rlog
    runs,          \* RunList: RunSummary[]
    runsLoading,   \* RunList: boolean (loading)
    agents,        \* AgentList: Agent[]
    listPending,   \* list requests awaiting their response
    lastFetch,     \* history: how the snapshot fetch of the last step ended
    cancels,       \* history: cancel commands sent for the displayed run
    away           \* history: ids of the stream events that arrived during
                   \* the latest stay in history mode

vars == <<viewMode, activeRunId, events, status, inputPrompt, inputValue,
          loading, timers, inflight, backend, inputSent, lastSubmit,
          liveEvents, isConnected, socket, parsedLog, msgCount, badCount,
          rlog, rstatus, runs, runsLoading, agents, listPending,
          lastFetch, cancels, away>>

appVars    == <<viewMode, activeRunId>>
detailVars == <<events, status, inputPrompt, inputValue, loading>>
histVars   == <<inputSent, lastSubmit>>
streamVars == <<liveEvents, isConnected, socket, parsedLog, msgCount, badCount>>
resolveVars == <<rlog, rstatus>>
listVars   == <<runs, runsLoading, agents, listPending>>
obsVars    == <<lastFetch, cancels, away>>

----------------------------------------------------------------------------
(* Bounds of the model *)

MaxLog == 2          \* events per run in the backend
MaxInflight == 2     \* outstanding requests
MaxMsgs == 102       \* stream messages delivered
MaxMalformed == 1    \* stream messages among them that are not Events
MaxSeq == 3          \* length of the resolver's input sequence
MaxCancels == 2      \* cancel commands counted for one selected run
MaxNavMsgs == 3      \* stream messages delivered while the view is navigated

(* Program constants *)

K == 100             \* useEventStream: slice(0, 100)

NULL == "null"
Runs == {"A", "B"}
Prompts == {"prompt"}
Values == {"x"}

\* Event kinds of the transition table, and one kind outside it.
TerminalKinds == {"run_completed", "run_failed", "run_cancelled"}
TableKinds == {"run_started", "run_paused", "request_input", "input_received",
               "resume"} \cup TerminalKinds
AllKinds == TableKinds \cup {"action_taken"}
\* Kinds the environment appends to a run's log in the view specifications.
BackendKinds == {"action_taken", "request_input", "run_completed"}

Min(a, b) == IF a < b THEN a ELSE b
Range(s) == {s[i] : i \in 1..Len(s)}

----------------------------------------------------------------------------
(* Backend snapshot: GET /api/runs/{id} -> { events, status } *)

StatusOfFirst(log) == IF Len(log) = 0 THEN "unknown" ELSE log[1]

\* status as the snapshot reports it: the kind of the last event of the log
StatusOf(log) == IF Len(log) = 0 THEN "unknown" ELSE log[Len(log)]

EventsOf(r, log) == [i \in 1..Len(log) |-> [id |-> i, run_id |-> r, kind |-> log[i]]]

Snapshot(r) == [events |-> EventsOf(r, backend[r]), status |-> StatusOf(backend[r])]

----------------------------------------------------------------------------
(* App.tsx / RunDetail.tsx *)

\* App.tsx:58-65: RunDetail is rendered in history mode with a run selected
Mounted == viewMode = "history" /\ activeRunId # NULL

\* useState defaults of RunDetail
DetailInit ==
    /\ events = <<>>
    /\ status = "unknown"
    /\ inputPrompt = NULL
    /\ inputValue = ""
    /\ loading = FALSE

\* a freshly mounted RunDetail starts from the useState defaults
DetailMount ==
    /\ events' = <<>>
    /\ status' = "unknown"
    /\ inputPrompt' = NULL
    /\ inputValue' = ""
    /\ loading' = FALSE

\* fetchDetails up to its await: the request for the closure's runId is out.
\* snap: the backend answers from the run's log as it is when the request is
\* made; the response reaches the dashboard at any later time.
\* alive: the RunDetail instance that issued it is still mounted (a state
\* update of an unmounted component is a no-op).
DetailsRequest(r, alive) == [op |-> "details", run |-> r, alive |-> alive,
                             snap |-> Snapshot(r), value |-> ""]

Room == Cardinality(inflight) < MaxInflight

Timer(r) == [run |-> r, alive |-> TRUE]

CleanupLeaks(ts) == ts

\* useEffect cleanup: clearInterval(interval)
Cleanup(ts) == {}

OrphanNone(fs) == fs

\* unmounting RunDetail: the state updates its pending continuations will
\* make are no-ops from now on
Orphan(fs) == {[f EXCEPT !.alive = FALSE] : f \in fs}

EffectOnce(r) ==
    /\ Room
    /\ inflight' = inflight \cup {DetailsRequest(r, TRUE)}
    /\ timers' = Cleanup(timers)

\* useEffect body for runId r, after the cleanup of the previous effect
Effect(r) ==
    /\ Room
    /\ inflight' = inflight \cup {DetailsRequest(r, TRUE)}
    /\ timers' = Cleanup(timers) \cup {Timer(r)}

SelectRunResetsFeed(r) ==
    /\ activeRunId' = r
    /\ viewMode' = "history"
    /\ IF Mounted
         THEN IF activeRunId = r
                THEN UNCHANGED <<detailVars, timers, inflight, lastSubmit>>
                ELSE /\ UNCHANGED <<detailVars, lastSubmit>>
                     /\ Effect(r)
         ELSE /\ DetailMount
              /\ lastSubmit' = "none"
              /\ Effect(r)
    /\ liveEvents' = <<>>
    /\ UNCHANGED <<backend, inputSent, isConnected, socket, parsedLog,
                   msgCount, badCount, resolveVars>>

\* handleSelectRun(r), the render it causes and the effects of that render
SelectRun(r) ==
    /\ activeRunId' = r
    /\ viewMode' = "history"
    /\ IF Mounted
         THEN IF activeRunId = r
                THEN UNCHANGED <<detailVars, timers, inflight, lastSubmit>>
                ELSE /\ UNCHANGED <<detailVars, lastSubmit>>
                     /\ Effect(r)
         ELSE /\ DetailMount
              /\ lastSubmit' = "none"
              /\ Effect(r)
    /\ UNCHANGED <<backend, inputSent, streamVars, resolveVars>>

ShowLiveKeepsRun ==
    /\ viewMode' = "live"
    /\ activeRunId' = activeRunId
    /\ IF Mounted
         THEN /\ timers' = Cleanup(Orphan(timers))
              /\ inflight' = Orphan(inflight)
         ELSE UNCHANGED <<timers, inflight>>
    /\ UNCHANGED <<detailVars, backend, histVars, streamVars, resolveVars>>

\* Live Feed onClick; RunDetail, if mounted, is unmounted: its effect is
\* cleaned up and state updates of its pending continuations become no-ops
ShowLive ==
    /\ viewMode' = "live"
    /\ activeRunId' = NULL
    /\ IF Mounted
         THEN /\ timers' = Cleanup(Orphan(timers))
              /\ inflight' = Orphan(inflight)
         ELSE UNCHANGED <<timers, inflight>>
    /\ UNCHANGED <<detailVars, backend, histVars, streamVars, resolveVars>>

\* setInterval(fetchDetails, 2000) fires: fetchDetails of the closure's runId
TimerFire(t) ==
    /\ t \in timers
    /\ Room
    /\ inflight' = inflight \cup {DetailsRequest(t.run, t.alive)}
    /\ UNCHANGED <<appVars, detailVars, timers, backend, histVars, streamVars,
                   resolveVars>>

\* res.ok with a full body, res.ok with a body lacking events, !res.ok,
\* fetch or res.json() throwing
DetailOutcomes == {"ok", "ok_no_events", "not_ok", "threw"}

ApplySnapshotAppends(f, outcome) ==
    /\ events' = IF outcome = "ok" THEN events \o f.snap.events ELSE <<>>
    /\ status' = f.snap.status

ApplySnapshotKeepsEvents(f, outcome) ==
    /\ events' = IF outcome = "ok" THEN f.snap.events ELSE events
    /\ status' = f.snap.status

\* setEvents(data.events || []); setStatus(data.status)
ApplySnapshot(f, outcome) ==
    /\ events' = IF outcome = "ok" THEN f.snap.events ELSE <<>>
    /\ status' = f.snap.status

AppliesUnlessThrown(f, outcome) == f.alive /\ outcome # "threw"

\* the response reaches the state setters: nothing threw, res.ok holds and
\* the component is still mounted
Applies(f, outcome) == f.alive /\ outcome \in {"ok", "ok_no_events"}

\* fetchDetails after its await
DeliverDetails(f, outcome) ==
    /\ f \in inflight
    /\ f.op = "details"
    /\ inflight' = inflight \ {f}
    /\ IF Applies(f, outcome)
         THEN ApplySnapshot(f, outcome)
         ELSE UNCHANGED <<events, status>>
    /\ UNCHANGED <<appVars, inputPrompt, inputValue, loading, timers, backend,
                   histVars, streamVars, resolveVars>>

\* RunDetail.tsx:85: the Stop button is rendered unless status is one of these
StopHidden == {"RunCompleted", "RunFailed", "Cancelled"}

StopVisible == Mounted /\ status \notin StopHidden

\* cancelRun up to its await; confirm() answers accept
CancelRun(accept) ==
    /\ StopVisible
    /\ IF accept
         THEN /\ Room
              /\ inflight' = inflight \cup
                   {[op |-> "cancel", run |-> activeRunId, alive |-> TRUE,
                     snap |-> NULL, value |-> ""]}
         ELSE UNCHANGED inflight
    /\ UNCHANGED <<appVars, detailVars, timers, backend, histVars, streamVars,
                   resolveVars>>

DeliverCancelOptimistic(f, threw) ==
    /\ f \in inflight
    /\ f.op = "cancel"
    /\ inflight' = (inflight \ {f}) \cup
                   (IF threw THEN {} ELSE {DetailsRequest(f.run, f.alive)})
    /\ status' = IF f.alive /\ ~threw THEN "Cancelled" ELSE status
    /\ UNCHANGED <<appVars, events, inputPrompt, inputValue, loading, timers,
                   backend, histVars, streamVars, resolveVars>>

\* cancelRun after its await: fetchDetails() unless fetch threw
DeliverCancel(f, threw) ==
    /\ f \in inflight
    /\ f.op = "cancel"
    /\ inflight' = (inflight \ {f}) \cup
                   (IF threw THEN {} ELSE {DetailsRequest(f.run, f.alive)})
    /\ UNCHANGED <<appVars, detailVars, timers, backend, histVars, streamVars,
                   resolveVars>>

\* RunDetail.tsx:96: the prompt and its controls are rendered iff inputPrompt
PromptVisible == Mounted /\ inputPrompt # NULL

\* onChange of the prompt's text input
OnChange(v) ==
    /\ PromptVisible
    /\ inputValue' = v
    /\ lastSubmit' = "none"
    /\ UNCHANGED <<appVars, events, status, inputPrompt, loading, timers,
                   inflight, backend, inputSent, streamVars, resolveVars>>

\* submitInput's local guard: the only condition under which nothing is sent
RejectedLocally == inputValue = ""

\* submitInput up to its await (Send button, or Enter in the text input)
SubmitInput ==
    /\ PromptVisible
    /\ IF RejectedLocally
         THEN UNCHANGED <<loading, inflight, inputSent, lastSubmit>>
         ELSE /\ Room
              /\ loading' = TRUE
              /\ inflight' = inflight \cup
                   {[op |-> "input", run |-> activeRunId, alive |-> TRUE,
                     snap |-> NULL, value |-> inputValue]}
              /\ inputSent' = inputSent \cup {status}
              /\ lastSubmit' = "none"
    /\ UNCHANGED <<appVars, events, status, inputPrompt, inputValue, timers,
                   backend, streamVars, resolveVars>>

InputOutcomes == {"ok", "not_ok", "threw"}

\* the await of submitInput returns a response (res.ok or not: the response
\* is not looked at) and the optimistic update is applied
KeepsOptimisticUpdate(outcome) == outcome # "threw"

\* submitInput after its await
DeliverInput(f, outcome) ==
    /\ f \in inflight
    /\ f.op = "input"
    /\ IF KeepsOptimisticUpdate(outcome)
         THEN /\ inflight' = (inflight \ {f}) \cup {DetailsRequest(f.run, f.alive)}
              /\ IF f.alive
                   THEN /\ inputValue' = ""
                        /\ inputPrompt' = NULL
                   ELSE UNCHANGED <<inputValue, inputPrompt>>
         ELSE /\ inflight' = inflight \ {f}
              /\ UNCHANGED <<inputValue, inputPrompt>>
    /\ IF f.alive
         THEN /\ loading' = FALSE
              /\ lastSubmit' = outcome
         ELSE UNCHANGED <<loading, lastSubmit>>
    /\ UNCHANGED <<appVars, events, status, timers, backend, inputSent,
                   streamVars, resolveVars>>

\* environment: the run emits one more event
BackendEmit(r, k) ==
    /\ Len(backend[r]) < MaxLog
    /\ backend' = [backend EXCEPT ![r] = Append(@, k)]
    /\ UNCHANGED <<appVars, detailVars, timers, inflight, histVars, streamVars,
                   resolveVars>>

----------------------------------------------------------------------------
(* useEventStream *)

PrependKeepsAll(event, prev) == <<event>> \o prev

\* [event, ...prev].slice(0, 100)
Prepend(event, prev) == SubSeq(<<event>> \o prev, 1, Min(K, Len(prev) + 1))

\* socket.onopen
OnOpen ==
    /\ socket = "connecting"
    /\ socket' = "open"
    /\ isConnected' = TRUE
    /\ UNCHANGED <<liveEvents, parsedLog, msgCount, badCount>>
    /\ UNCHANGED <<appVars, detailVars, timers, inflight, backend, histVars,
                   resolveVars>>

\* message.data as the server can send it: the JSON text of an Event, JSON
\* text of some other value (null, a number, an object without the Event
\* fields), or text that is not JSON
Payloads == {"event", "other_json", "not_json"}

\* JSON.parse(message.data) returns (it throws on text that is not JSON)
Parses(data) == data # "not_json"

\* socket.onmessage. The n-th value that JSON.parse returns carries id n;
\* isEvent tells whether it has the shape of an Event (the annotation
\* `const event: Event` checks nothing at run time).
OnMessage(data) ==
    /\ socket = "open"
    /\ msgCount < MaxMsgs
    /\ msgCount' = msgCount + 1
    /\ data # "event" => badCount < MaxMalformed
    /\ badCount' = IF data = "event" THEN badCount ELSE badCount + 1
    /\ IF Parses(data)
         THEN LET event == [id |-> Len(parsedLog) + 1,
                            isEvent |-> (data = "event")] IN
              /\ liveEvents' = Prepend(event, liveEvents)
              /\ parsedLog' = Append(parsedLog, event)
         ELSE UNCHANGED <<liveEvents, parsedLog>>
    /\ UNCHANGED <<isConnected, socket>>
    /\ UNCHANGED <<appVars, detailVars, timers, inflight, backend, histVars,
                   resolveVars>>

OnCloseKeepsFlag ==
    /\ socket \in {"connecting", "open"}
    /\ socket' = "closed"
    /\ UNCHANGED <<isConnected, liveEvents, parsedLog, msgCount, badCount>>
    /\ UNCHANGED <<appVars, detailVars, timers, inflight, backend, histVars,
                   resolveVars>>

\* socket.onclose: the server or the network closes, the connection attempt
\* fails, or the effect's cleanup calls socket.close()
OnClose ==
    /\ socket \in {"connecting", "open"}
    /\ socket' = "closed"
    /\ isConnected' = FALSE
    /\ UNCHANGED <<liveEvents, parsedLog, msgCount, badCount>>
    /\ UNCHANGED <<appVars, detailVars, timers, inflight, backend, histVars,
                   resolveVars>>

StreamNext ==
    \/ OnOpen /\ UNCHANGED <<listVars, obsVars>>
    \/ \E data \in Payloads : OnMessage(data) /\ UNCHANGED <<listVars, obsVars>>
    \/ OnClose /\ UNCHANGED <<listVars, obsVars>>

----------------------------------------------------------------------------
(* Run state as the dashboard derives it: the status string of the         *)
(* snapshot, i.e. the kind of the last event of the ordered log.           *)

KindsOf(log) == [i \in 1..Len(log) |-> log[i].kind]

\* one more event arrives in the log
Observe(k) ==
    /\ Len(rlog) < MaxSeq
    /\ rlog' = Append(rlog, [id |-> Cardinality(Range(rlog)) + 1, kind |-> k])
    /\ rstatus' = StatusOf(KindsOf(rlog'))
    /\ UNCHANGED <<appVars, detailVars, timers, inflight, backend, histVars,
                   streamVars>>

\* an event already in the log is delivered again
Replay(i) ==
    /\ Len(rlog) < MaxSeq
    /\ i \in 1..Len(rlog)
    /\ rlog' = Append(rlog, rlog[i])
    /\ rstatus' = StatusOf(KindsOf(rlog'))
    /\ UNCHANGED <<appVars, detailVars, timers, inflight, backend, histVars,
                   streamVars>>

ResolveNext ==
    \/ \E k \in AllKinds : Observe(k) /\ UNCHANGED <<listVars, obsVars>>
    \/ \E i \in 1..MaxSeq : Replay(i) /\ UNCHANGED <<listVars, obsVars>>

----------------------------------------------------------------------------

----------------------------------------------------------------------------
(* RunList.tsx / AgentList *)

\* the value of a field that a parsed body does not have
UNDEFINED == "undefined"

\* the summary of run r that GET /api/runs lists
SummaryOf(r) == [run_id |-> r, event_count |-> Len(backend[r]),
                 status |-> StatusOf(backend[r])]

\* what `await res.json()` gives fetchRuns: it throws (as does a rejected
\* fetch), or it is a body without a runs field (an error body; res.ok is
\* not looked at), or a body whose runs field lists no run or every run
RunsBodies == {"threw", "no_field", "empty", "all"}

RunsField(body) ==
    CASE body = "no_field" -> UNDEFINED
      [] body = "empty"    -> <<>>
      [] body = "all"      -> <<SummaryOf("A"), SummaryOf("B")>>

AgentsBodies == {"threw", "no_field", "empty", "all"}

AgentsField(body) ==
    CASE body = "no_field" -> UNDEFINED
      [] body = "empty"    -> <<>>
      [] body = "all"      -> <<[id |-> "agent1"]>>

\* runs.length / agents.length of the render throws on undefined and React
\* unmounts the tree
Crashed == runs = UNDEFINED \/ agents = UNDEFINED

\* fetchRuns up to its await (Refresh button)
FetchRuns ==
    /\ ~Crashed
    /\ runsLoading' = TRUE
    /\ listPending' = listPending \cup {"runs"}
    /\ UNCHANGED <<runs, agents>>

\* fetchRuns after its await
DeliverRuns(body) ==
    /\ ~Crashed
    /\ "runs" \in listPending
    /\ listPending' = listPending \ {"runs"}
    /\ runs' = IF body = "threw" THEN runs ELSE RunsField(body)
    /\ runsLoading' = FALSE
    /\ UNCHANGED agents

\* fetchAgents after its await
DeliverAgents(body) ==
    /\ ~Crashed
    /\ "agents" \in listPending
    /\ listPending' = listPending \ {"agents"}
    /\ agents' = IF body = "threw" THEN agents ELSE AgentsField(body)
    /\ UNCHANGED <<runs, runsLoading>>

\* useState defaults, then the mount effects: fetchRuns() and fetchAgents()
ListInit ==
    /\ runs = <<>>
    /\ runsLoading = TRUE
    /\ agents = <<>>
    /\ listPending = {"runs", "agents"}

\* the step is of the lists: the rest of the dashboard stays as it is
ListsOnly == UNCHANGED <<appVars, detailVars, timers, inflight, backend,
                         histVars, streamVars, resolveVars, obsVars>>

ListNext ==
    \/ FetchRuns /\ ListsOnly
    \/ \E body \in RunsBodies : DeliverRuns(body) /\ ListsOnly
    \/ \E body \in AgentsBodies : DeliverAgents(body) /\ ListsOnly
    \/ \E r \in Runs : \E k \in BackendKinds :
          BackendEmit(r, k) /\ UNCHANGED <<listVars, obsVars>>

ObsInit ==
    /\ lastFetch = "none"
    /\ cancels = 0
    /\ away = {}

StreamInit ==
    /\ liveEvents = <<>>
    /\ isConnected = FALSE
    /\ socket = "connecting"
    /\ parsedLog = <<>>
    /\ msgCount = 0
    /\ badCount = 0

ResolveInit ==
    /\ rlog = <<>>
    /\ rstatus = StatusOf(rlog)

Init ==
    /\ viewMode = "live"
    /\ activeRunId = NULL
    /\ DetailInit
    /\ timers = {}
    /\ inflight = {}
    /\ backend = [r \in Runs |-> <<"run_started">>]
    /\ inputSent = {}
    /\ lastSubmit = "none"
    /\ StreamInit
    /\ ResolveInit
    /\ ListInit
    /\ ObsInit

\* App.tsx:58-65: what the main section shows
DisplayedFeed ==
    IF viewMode = "live" THEN liveEvents
    ELSE IF activeRunId # NULL THEN events ELSE <<>>

\* the step is of the view and is not observed: the lists and the history
\* variables of the observed specifications stay as they are
Unobserved == UNCHANGED <<listVars, obsVars>>

ViewNext ==
    \/ \E r \in Runs : SelectRun(r) /\ Unobserved
    \/ ShowLive /\ Unobserved
    \/ \E t \in timers : TimerFire(t) /\ Unobserved
    \/ \E f \in inflight : \E o \in DetailOutcomes :
          DeliverDetails(f, o) /\ Unobserved
    \/ \E a \in BOOLEAN : CancelRun(a) /\ Unobserved
    \/ \E f \in inflight : \E threw \in BOOLEAN :
          DeliverCancel(f, threw) /\ Unobserved
    \/ \E r \in Runs : \E k \in BackendKinds : BackendEmit(r, k) /\ Unobserved

\* The assembled dashboard.  inputPrompt is only ever assigned null
\* (RunDetail.tsx:14, :59), so the prompt's controls are never rendered and
\* their handlers are not steps of it; see PromptNeverShown.
Next == ViewNext

Spec == Init /\ [][Next]_vars

PromptNeverShown == inputPrompt = NULL /\ inputValue = ""

\* The run list and the agent list alone.
SpecLists == Init /\ [][ListNext]_vars

\* how a snapshot fetch of the mounted view ended: "failed" when fetch or
\* res.json() threw or the response was not OK, "no_events" when the body
\* had no events field
FetchResult(f, outcome) ==
    IF ~f.alive THEN "none"
    ELSE CASE outcome \in {"not_ok", "threw"} -> "failed"
           [] outcome = "ok_no_events"       -> "no_events"
           [] outcome = "ok"                 -> "ok"

\* The assembled dashboard, observed: lastFetch tells how the snapshot fetch
\* that the last step completed ended.
\* the step completes no snapshot fetch
NoFetch == lastFetch' = "none" /\ UNCHANGED <<listVars, cancels, away>>

PollTimer == \E t \in timers : TimerFire(t) /\ NoFetch

PollDeliver ==
    \E f \in inflight : \E o \in DetailOutcomes :
        /\ DeliverDetails(f, o)
        /\ lastFetch' = FetchResult(f, o)
        /\ UNCHANGED <<listVars, cancels, away>>

PollDeliverCancel ==
    \E f \in inflight : \E threw \in BOOLEAN : DeliverCancel(f, threw) /\ NoFetch

PollNext ==
    \/ \E r \in Runs : SelectRun(r) /\ NoFetch
    \/ ShowLive /\ NoFetch
    \/ PollTimer
    \/ PollDeliver
    \/ \E a \in BOOLEAN : CancelRun(a) /\ NoFetch
    \/ PollDeliverCancel
    \/ \E r \in Runs : \E k \in BackendKinds : BackendEmit(r, k) /\ NoFetch

SpecPoll == Init /\ [][PollNext]_vars

\* the backend handles a cancel command it has received for run r
BackendCancel(r) ==
    /\ \E f \in inflight : f.op = "cancel" /\ f.run = r
    /\ BackendEmit(r, "run_cancelled")

\* The assembled dashboard with runs that only cancel commands end,
\* observed: cancels counts the cancel commands sent for the run on display
\* since it was selected.
CancelNext ==
    \/ \E r \in Runs :
          /\ SelectRun(r)
          /\ cancels' = IF Mounted /\ activeRunId = r THEN cancels ELSE 0
          /\ UNCHANGED <<listVars, lastFetch, away>>
    \/ ShowLive /\ cancels' = 0 /\ UNCHANGED <<listVars, lastFetch, away>>
    \/ \E t \in timers : TimerFire(t) /\ Unobserved
    \/ \E f \in inflight : \E o \in DetailOutcomes :
          DeliverDetails(f, o) /\ Unobserved
    \/ /\ CancelRun(TRUE)
       /\ cancels < MaxCancels
       /\ cancels' = cancels + 1
       /\ UNCHANGED <<listVars, lastFetch, away>>
    \/ CancelRun(FALSE) /\ Unobserved
    \/ \E f \in inflight : \E threw \in BOOLEAN :
          DeliverCancel(f, threw) /\ Unobserved
    \/ \E r \in Runs : BackendCancel(r) /\ Unobserved

SpecCancel == Init /\ [][CancelNext]_vars

\* The view being navigated while the stream client runs, observed: away
\* holds the ids of the events that arrived since the view last left live
\* mode and before it returned.
NavNext ==
    \/ \E r \in Runs :
          /\ SelectRun(r)
          /\ away' = IF viewMode = "live" THEN {} ELSE away
          /\ UNCHANGED <<listVars, lastFetch, cancels>>
    \/ ShowLive /\ Unobserved
    \/ \E t \in timers : TimerFire(t) /\ Unobserved
    \/ \E f \in inflight : \E o \in DetailOutcomes :
          DeliverDetails(f, o) /\ Unobserved
    \/ OnOpen /\ Unobserved
    \/ \E data \in Payloads :
          /\ msgCount < MaxNavMsgs
          /\ OnMessage(data)
          /\ away' = IF viewMode = "history" /\ Parses(data)
                       THEN away \cup {Len(parsedLog) + 1} ELSE away
          /\ UNCHANGED <<listVars, lastFetch, cancels>>
    \/ OnClose /\ Unobserved

SpecNav == Init /\ [][NavNext]_vars

\* The observed dashboard with time passing: setInterval fires its callback
\* every 2000 ms whatever else is outstanding (strong fairness: Room is a
\* bound of the model, not a condition of the code), and every fetch settles.
SpecLive ==
    /\ Init
    /\ [][PollNext]_vars
    /\ SF_vars(PollTimer)
    /\ WF_vars(PollDeliver)
    /\ WF_vars(PollDeliverCancel)

\* The stream client alone.
SpecStream == Init /\ [][StreamNext]_vars

\* The derivation of the run state alone.
SpecResolve == Init /\ [][ResolveNext]_vars

\* RunDetail with its prompt shown: the handlers of the prompt's controls
\* exercised from the component states in which they are rendered.
InitPrompt ==
    /\ viewMode = "history"
    /\ activeRunId \in Runs
    /\ events = <<>>
    /\ status = "unknown"
    /\ inputPrompt \in Prompts
    /\ inputValue = ""
    /\ loading = FALSE
    /\ backend = [r \in Runs |-> <<"run_started">>]
    /\ timers = {Timer(activeRunId)}
    /\ inflight = {DetailsRequest(activeRunId, TRUE)}
    /\ inputSent = {}
    /\ lastSubmit = "none"
    /\ StreamInit
    /\ ResolveInit
    /\ ListInit
    /\ ObsInit

PromptNext ==
    \/ ViewNext
    \/ \E v \in Values : OnChange(v) /\ Unobserved
    \/ SubmitInput /\ Unobserved
    \/ \E f \in inflight : \E o \in InputOutcomes :
          DeliverInput(f, o) /\ Unobserved

SpecPrompt == InitPrompt /\ [][PromptNext]_vars


----------------------------------------------------------------------------
(* Properties *)

\* a pending snapshot request whose response is consumed by this step
Consumed(f) == f \in inflight /\ f.op = "details" /\ f \notin inflight'

\* C1: while run B is selected, the response to a fetch issued for another
\* run A never writes the displayed events or status.
C1_StaleResponseDiscarded ==
    [][\A f \in inflight :
          (Mounted /\ UNCHANGED appVars /\ Consumed(f) /\ f.run # activeRunId)
             => UNCHANGED <<events, status>>]_vars

\* C2: the live buffer holds at most K events, and exactly the min(n, K)
\* most recently arrived of the n parsed events, newest first.
C2_BufferIsLatestK ==
    LET n == Len(parsedLog)
        m == Min(n, K)
    IN  /\ Len(liveEvents) <= K
        /\ Len(liveEvents) = m
        /\ \A i \in 1..m : liveEvents[i] = parsedLog[n - i + 1]

\* more than K events have arrived, so the oldest ones were evicted
C2_Witness == Len(parsedLog) > K /\ Len(liveEvents) = K /\ badCount > 0

\* C3: a change of the selected run itself resets the displayed events and
\* status to the initial empty/unknown snapshot.
C3_SwitchClearsView ==
    [][(Mounted /\ Mounted' /\ activeRunId' # activeRunId)
          => (events' = <<>> /\ status' = "unknown")]_vars

\* C4: at most one poll timer exists, it belongs to the mounted view and
\* targets the selected run, and no timer exists in live mode.
C4_OneTimerForSelectedRun ==
    /\ Cardinality(timers) <= 1
    /\ \A t \in timers : Mounted /\ t.alive /\ t.run = activeRunId
    /\ Mounted => timers = {Timer(activeRunId)}
    /\ viewMode = "live" => timers = {}

\* the selection went from A to B with the view mounted: A's snapshot is
\* still displayed, and the only timer is B's
C4_Witness ==
    /\ Mounted
    /\ activeRunId = "B"
    /\ timers = {Timer("B")}
    /\ \E i \in 1..Len(events) : events[i].run_id = "A"

\* C5: once RunDetail is unmounted no poll timer is left to fire, and as
\* long as it stays unmounted its events, status and prompt state do not
\* change, whatever responses arrive.
C5_NoMutationAfterTeardown ==
    /\ [](~Mounted => timers = {})
    /\ [][(~Mounted /\ ~Mounted') => UNCHANGED detailVars]_vars

\* the view was torn down with a fetch in flight whose snapshot differs from
\* what the view displayed
C5_Witness ==
    /\ ~Mounted
    /\ \E f \in inflight :
          /\ f.op = "details"
          /\ ~f.alive
          /\ f.snap.events # events
          /\ events # <<>>

\* RunState (types.ts) denoted by a status tag; "unknown" for any other tag
StateOfTag(tag) ==
    CASE tag = "run_started" -> "active"
      [] tag = "run_paused" -> "paused"
      [] tag = "request_input" -> "awaiting_input"
      [] tag \in {"input_received", "resume"} -> "active"
      [] tag = "run_completed" -> "completed"
      [] tag = "run_failed" -> "failed"
      [] tag = "run_cancelled" -> "cancelled"
      [] OTHER -> "unknown"

TerminalStates == {"completed", "failed", "cancelled"}

\* the transition table of the resolver, one event
TableStep(state, kind) ==
    IF state \in TerminalStates THEN state
    ELSE CASE kind = "run_started" -> "active"
           [] kind = "run_paused" -> "paused"
           [] kind = "request_input" -> "awaiting_input"
           [] kind \in {"input_received", "resume"} ->
                 IF state \in {"paused", "awaiting_input"} THEN "active" ELSE state
           [] kind = "run_completed" -> "completed"
           [] kind = "run_failed" -> "failed"
           [] kind = "run_cancelled" -> "cancelled"
           [] OTHER -> state

RECURSIVE TableResolve(_)
TableResolve(kinds) ==
    IF Len(kinds) = 0 THEN "unknown"
    ELSE TableStep(TableResolve(SubSeq(kinds, 1, Len(kinds) - 1)), kinds[Len(kinds)])

HasTerminal(log) == \E i \in 1..Len(log) : log[i].kind \in TerminalKinds

FirstTerminal(log) ==
    log[CHOOSE i \in 1..Len(log) :
           /\ log[i].kind \in TerminalKinds
           /\ \A j \in 1..(i - 1) : log[j].kind \notin TerminalKinds].kind

Resolved == StateOfTag(rstatus)

\* C6: once the sequence contains a terminal kind the resolved state is the
\* state of the first terminal kind, whatever follows it.
C6_FixedAfterTerminal ==
    HasTerminal(rlog) => Resolved = StateOfTag(FirstTerminal(rlog))

\* C7: resolve follows the transition table over the whole log:
\* [run_started, action_taken, request_input] gives AwaitingInput,
\* [run_started, run_completed, action_taken] gives Completed,
\* request_input from a non-terminal state gives AwaitingInput, and
\* input_received or resume from Paused or AwaitingInput gives Active.
C7_ResolveFollowsTable ==
    LET kinds == KindsOf(rlog)
        n == Len(kinds)
        before == TableResolve(SubSeq(kinds, 1, n - 1))
    IN  /\ kinds = <<"run_started", "action_taken", "request_input">>
              => Resolved = "awaiting_input"
        /\ kinds = <<"run_started", "run_completed", "action_taken">>
              => Resolved = "completed"
        /\ (n > 0 /\ kinds[n] = "request_input" /\ before \notin TerminalStates)
              => Resolved = "awaiting_input"
        /\ (n > 0 /\ kinds[n] \in {"input_received", "resume"}
                  /\ before \in {"paused", "awaiting_input"})
              => Resolved = "active"

\* this step delivers again an event that the log already holds
IsReplay ==
    /\ Len(rlog') = Len(rlog) + 1
    /\ rlog'[Len(rlog')] \in Range(rlog)

AwaitingInputTags == {"request_input", "RequestInput", "awaiting_input"}

C11_NoCancelWhenTerminal ==
    [][(Mounted /\ status \in TerminalKinds)
          => \A f \in inflight' \ inflight : f.op # "cancel"]_vars

\* C12: whenever the displayed snapshot of the selected run shows it
\* requesting input, the input prompt is visible.
C12_PromptShownWhenRequested ==
    (/\ Mounted
     /\ status \in AwaitingInputTags
     /\ \A i \in 1..Len(events) : events[i].run_id = activeRunId)
        => PromptVisible


\* C13: a message that is not an Event (text that is not JSON, or JSON of
\* another shape) is dropped: the buffer, the socket and the connectivity
\* flag are as before it arrived, and the socket is still open.
C13_MalformedDropped ==
    [][badCount' # badCount
          => /\ liveEvents' = liveEvents
             /\ socket' = "open"
             /\ isConnected']_vars

\* C14: the connectivity flag is true exactly while the socket is open, and
\* a closed socket stays closed, so the flag never becomes true again.
C14_FlagFollowsSocket ==
    /\ [](isConnected <=> socket = "open")
    /\ [][socket = "closed" => (socket' = "closed" /\ ~isConnected')]_vars

\* the socket was open, received messages, and is now closed
C14_Witness == socket = "closed" /\ ~isConnected /\ Len(parsedLog) > 0


\* C17: whatever the list endpoints answer, the run list and the agent list
\* stay lists and the displayed events stay a list.
C17_ListsStayLists ==
    /\ runs # UNDEFINED
    /\ agents # UNDEFINED
    /\ events \in Seq([id : Nat, run_id : Runs, kind : AllKinds])


\* C15: a snapshot fetch that failed leaves the displayed events and status
\* as they were, and the interval timer of the selected run keeps running.
C15_FailedFetchKeepsSnapshot ==
    [][lastFetch' = "failed"
          => /\ events' = events
             /\ status' = status
             /\ timers' = timers
             /\ Timer(activeRunId') \in timers']_vars

\* a fetch just failed while an earlier snapshot is on display
C15_Witness ==
    /\ lastFetch = "failed"
    /\ Mounted
    /\ events # <<>>
    /\ status # "unknown"


\* C16: while run r stays selected, snapshot fetches for it are issued again
\* and again; and if from some point on every fetch succeeds with a full
\* body, the displayed events and status eventually equal the backend's
\* snapshot of r and stay equal (the backend's log stops growing at MaxLog).
C16_PollingConverges ==
    \A r \in Runs :
        LET Selected == Mounted /\ activeRunId = r
            Issued   == \E f \in inflight :
                            f.op = "details" /\ f.run = r /\ f.alive
            Succeeds == lastFetch \notin {"failed", "no_events"}
            Caught   == events = Snapshot(r).events
                            /\ status = Snapshot(r).status
        IN  /\ <>[]Selected => []<>Issued
            /\ (<>[]Selected /\ <>[]Succeeds) => <>[]Caught

\* the log of the selected run has grown and the display has caught up
\* with it after a fetch failed
C16_Witness ==
    /\ Mounted
    /\ Len(backend[activeRunId]) > 1
    /\ events = Snapshot(activeRunId).events
    /\ status = Snapshot(activeRunId).status
    /\ lastFetch = "ok"
    /\ inflight = {}


\* C18: the view is in one mode; in live mode the displayed feed is the
\* stream buffer, in history mode it is a snapshot of the selected run.
C18_SingleSourcePerMode ==
    /\ viewMode \in {"live", "history"}
    /\ viewMode = "live" => DisplayedFeed = liveEvents
    /\ viewMode = "history" =>
          /\ activeRunId \in Runs
          /\ DisplayedFeed = events
          /\ \A i \in 1..Len(DisplayedFeed) :
                DisplayedFeed[i].run_id = activeRunId

\* requests that the step sends or completes
Sent == inflight' \ inflight
Done == inflight \ inflight'

\* C19: sending a cancel command and receiving its response leave the
\* displayed events and status alone; a completed cancel is followed by at
\* most a snapshot fetch; the display changes only when the response of a
\* snapshot fetch of the mounted view is applied (or the view is mounted
\* afresh); declining the confirmation sends nothing.
C19_CancelLeavesDisplay ==
    [][/\ (\E f \in Sent \cup Done : f.op = "cancel")
             => (events' = events /\ status' = status)
       /\ \A f \in Done :
             (f.op = "cancel" /\ Mounted' = Mounted)
                => Sent \subseteq {DetailsRequest(f.run, f.alive)}
       /\ (events' # events \/ status' # status)
             => \/ ~Mounted /\ Mounted'
                \/ \E f \in Done :
                      /\ f.op = "details" /\ f.alive
                      /\ status' = f.snap.status
                      /\ events' \in {f.snap.events, <<>>}
       /\ CancelRun(FALSE) => Sent = {}]_vars

\* a cancel command is out for the run on display, whose snapshot shown is
\* the one from before the command
C19_Witness ==
    /\ Mounted
    /\ events # <<>>
    /\ \E f \in inflight :
          f.op = "cancel" /\ f.alive /\ f.run = activeRunId


\* the snapshots run r has had: its log is append-only
SnapshotsOf(r) ==
    {[events |-> EventsOf(r, SubSeq(backend[r], 1, n)),
      status |-> StatusOf(SubSeq(backend[r], 1, n))] :
        n \in 1..Len(backend[r])}

\* the display is the useState default or what one snapshot response gives
OneSnapshotShown ==
    \/ events = <<>> /\ status = "unknown"
    \/ \E r \in Runs : \E s \in SnapshotsOf(r) :
          status = s.status /\ events \in {s.events, <<>>}

\* C20: after two cancel commands for the selected run, once their
\* responses and every fetch of the view have completed, the displayed events
\* and status are those of one snapshot of the backend.
C20_DoubleCancelSafe ==
    (Mounted /\ cancels >= 2 /\ \A f \in inflight : ~f.alive)
        => OneSnapshotShown

\* two cancel commands were sent, everything has completed, and the display
\* is the cancelled run's current snapshot
C20_Witness ==
    /\ Mounted
    /\ cancels >= 2
    /\ inflight = {}
    /\ status = "run_cancelled"
    /\ events = Snapshot(activeRunId).events


\* C21: a successful snapshot fetch of the mounted view makes the displayed
\* events and status exactly those of its response; a response without an
\* events field makes the displayed events the empty list.
C21_SnapshotReplacesWholesale ==
    [][\A f \in inflight :
          (Consumed(f) /\ lastFetch' \in {"ok", "no_events"})
             => /\ status' = f.snap.status
                /\ lastFetch' = "ok" => events' = f.snap.events
                /\ lastFetch' = "no_events" => events' = <<>>]_vars

\* a response for the selected run, whose log has grown, was just applied:
\* it had the current status and no events field
C21_Witness ==
    /\ Mounted
    /\ lastFetch = "no_events"
    /\ events = <<>>
    /\ status \in BackendKinds
    /\ status = Snapshot(activeRunId).status

\* C22: while no snapshot has been received the status is 'unknown', and
\* the Stop button is not offered while the status is 'unknown'.
C22_NoStopWhileUnknown ==
    (Mounted /\ status = "unknown") => ~StopVisible


\* C23: an event of an unrecognised kind leaves the derived run state as it
\* was, and it is kept in the log.
C23_UnknownKindIgnored ==
    [][(/\ Len(rlog') = Len(rlog) + 1
        /\ rlog'[Len(rlog')].kind \notin TableKinds)
          => /\ Resolved' = Resolved
             /\ SubSeq(rlog', 1, Len(rlog)) = rlog]_vars

\* C24: with the selected run unchanged, the response to a fetch issued
\* earlier than the one whose snapshot is displayed (its log is shorter: the
\* backend's log only grows) does not replace the displayed events and status.
C24_AppliedInRequestOrder ==
    [][\A f \in inflight :
          (/\ Mounted /\ UNCHANGED appVars
           /\ Consumed(f) /\ f.alive /\ f.run = activeRunId
           /\ \A i \in 1..Len(events) : events[i].run_id = activeRunId
           /\ Len(f.snap.events) < Len(events))
             => UNCHANGED <<events, status>>]_vars


\* C25: the mode is 'history' exactly when a run is selected, and then
\* RunDetail is rendered for it.
C25_HistoryIffRunSelected ==
    /\ viewMode \in {"live", "history"}
    /\ viewMode = "history" <=> activeRunId # NULL
    /\ viewMode = "history" => (activeRunId \in Runs /\ Mounted)

\* the view was in history mode with a fetch outstanding and is back in
\* live mode with no run selected
C25_Witness ==
    /\ viewMode = "live"
    /\ activeRunId = NULL
    /\ \E f \in inflight : ~f.alive

\* C26: a step that changes the mode or the selected run leaves the live
\* buffer, the socket and the connectivity flag as they were; every event
\* that arrived while the view was in history mode is in the buffer unless
\* K later events have arrived; and in live mode the feed is the buffer.
C26_NavigationLeavesStream ==
    /\ [][appVars' # appVars
             => UNCHANGED <<liveEvents, isConnected, socket>>]_vars
    /\ [](\A n \in away :
             n > Len(parsedLog) - K
                => \E i \in 1..Len(liveEvents) : liveEvents[i].id = n)
    /\ [](viewMode = "live" => DisplayedFeed = liveEvents)

\* two events arrived while the view was in history mode; the view is back
\* in live mode, the socket still open
C26_Witness ==
    /\ viewMode = "live"
    /\ Cardinality(away) >= 2
    /\ socket = "open"
    /\ isConnected

====
